---------------------------- MODULE Spec2Model ----------------------------
(***************************************************************************)
(* A model of scripts/kanbanzone_api.py, the KanbanZone command line       *)
(* client: the paginating fetch (fetch_all_cards), the field resolver      *)
(* (get_card_field), the client-side filter (filter_cards), the cross-board *)
(* search (cmd_search_cards), the WIP evaluator (cmd_wip_check) and the     *)
(* dispatch and exit status of main.                                        *)
(*                                                                         *)
(* JSON values are tagged records [t, v]; a JSON object is a function from  *)
(* its keys to values, a JSON string a tuple of one-character strings.      *)
(* The server is a mock transport fixed by Init: what it answers to each    *)
(* request is a function of the request.                                    *)
(***************************************************************************)
EXTENDS Integers, Sequences, FiniteSets, TLC

VARIABLES
    env,          \* the environment: KANBANZONE_API_KEY set?, KANBANZONE_BOARD_ID
    args,         \* the parsed command line (argparse namespace)
    server,       \* the mock transport: its answer to every request
    pc,           \* position of the single thread of control
    calls,        \* the requests issued so far by api_request, in order
    stdout,       \* the JSON documents written to standard output, in order
    exitcode,     \* the process exit status, -1 while running
    params,       \* fetch_all_cards: params
    cards_data,   \* fetch_all_cards: cards_data
    all_cards,    \* fetch_all_cards: all_cards
    page,         \* fetch_all_cards: page
    retpc,        \* fetch_all_cards: where the call returns to
    fetched,      \* fetch_all_cards: its return value
    boards_data,  \* cmd_search_cards: boards_data / cmd_wip_check: board_data
    bidx,         \* cmd_search_cards: index of the board_item the loop is at
    all_results,  \* cmd_search_cards: all_results
    fetchlog,     \* history: the value fetch_all_cards returned for each board fetched
    filtered,     \* the list filter_cards returned
    refiltered,   \* the list filter_cards returned for `filtered` as its input
    board_data,   \* cmd_wip_check: board_data
    col_counts,   \* cmd_wip_check: col_counts
    report        \* cmd_wip_check: report

vars == <<env, args, server, pc, calls, stdout, exitcode, params, cards_data,
          all_cards, page, retpc, fetched, boards_data, bidx, all_results, fetchlog,
          filtered, refiltered, board_data, col_counts, report>>

fetchVars == <<params, cards_data, all_cards, page, retpc, fetched>>
searchVars == <<boards_data, bidx, all_results, fetchlog>>
filterVars == <<filtered, refiltered>>
wipVars == <<board_data, col_counts, report>>
inputs == <<env, args, server>>

-----------------------------------------------------------------------------
(* Bounds of the model *)

MaxPages == 3
MaxPageSize == 2
MaxCards == 2
MaxCols == 2
MaxWip == 3
MaxBoards == 2

-----------------------------------------------------------------------------
(* JSON values and Python truthiness *)

Null == [t |-> "null"]
JBool(b) == [t |-> "bool", v |-> b]
JInt(n) == [t |-> "int", v |-> n]
JStr(s) == [t |-> "str", v |-> s]
JList(l) == [t |-> "list", v |-> l]
JObj(o) == [t |-> "obj", v |-> o]

EmptyObj == [k \in {} |-> Null]

\* bool(v) as Python evaluates it in `if v`, `v and ...`, `v or ...`
Truthy(v) ==
    CASE v.t = "null" -> FALSE
      [] v.t = "bool" -> v.v
      [] v.t = "int"  -> v.v # 0
      [] v.t = "str"  -> v.v # <<>>
      [] v.t = "list" -> v.v # <<>>
      [] v.t = "obj"  -> DOMAIN v.v # {}

\* d.get(k): None when the key is absent
Get(d, k) == IF k \in DOMAIN d THEN d[k] ELSE Null

\* d.get(k, default)
GetOr(d, k, default) == IF k \in DOMAIN d THEN d[k] ELSE default

RECURSIVE Concat(_)
Concat(ss) == IF ss = <<>> THEN <<>> ELSE Head(ss) \o Concat(Tail(ss))

SeqsUpTo(S, n) == UNION {[1..k -> S] : k \in 0..n}


-----------------------------------------------------------------------------
(* The transport: api_request against the mock server *)

\* The error values api_request builds itself: an HTTP error (line 80) and a
\* network failure (line 82)
HttpError ==
    ("error" :> JBool(TRUE)) @@ ("status" :> JInt(500))
        @@ ("message" :> JStr(<<"Internal Server Error">>)) @@ ("body" :> JStr(<<>>))

UrlError == ("error" :> JBool(TRUE)) @@ ("message" :> JStr(<<"timed out">>))

ErrorReplies == {HttpError, UrlError}

\* One page of the /cards resource as the server sends it
Page(cards, more) == ("cards" :> JList(cards)) @@ ("hasMore" :> JBool(more))

\* The page parameter of a /cards request; the server reads a request
\* without one as a request for page 1
PageOf(ps) == IF "page" \in DOMAIN ps THEN ps["page"].v ELSE 1

\* The server's answer to GET /cards: the page asked for, an empty last page
\* past the end, an HTTP error for a board it does not know
CardsReply(ps) ==
    LET b == Get(ps, "board")
    IN  IF b \notin DOMAIN server.cards THEN HttpError
        ELSE IF PageOf(ps) \in 1..Len(server.cards[b]) THEN server.cards[b][PageOf(ps)]
        ELSE Page(<<>>, FALSE)

\* lines 53-56: the parameters whose value is None are left out of the URL
UrlParams(ps) ==
    LET keep == {k \in DOMAIN ps : ps[k] # Null}
    IN  [k \in keep |-> ps[k]]

\* The request api_request sends (lines 51-65)
Request(method, ep, arg, ps, body) ==
    [method |-> method, ep |-> ep, arg |-> arg, params |-> UrlParams(ps), body |-> body]

\* api_request, lines 67-82: the decoded answer of the server, or an error value
api_request(req) ==
    CASE req.ep = "/cards" /\ req.method = "GET" -> CardsReply(req.params)
      [] req.ep = "/boards" -> server.boards
      [] req.ep = "/board/{}" -> server.board
      [] OTHER -> server.other

IsError(d) == Truthy(Get(d, "error"))

\* error_exit, lines 43-46: the error document on standard output, exit status 1
ErrorDoc(message) == ("error" :> JBool(TRUE)) @@ ("message" :> JStr(<<message>>))

error_exit(message) ==
    /\ stdout' = Append(stdout, ErrorDoc(message))
    /\ exitcode' = 1
    /\ pc' = "exited"

\* get_api_key, lines 25-29, as api_request calls it before it sends anything
NoApiKey ==
    /\ ~env.hasKey
    /\ error_exit("KANBANZONE_API_KEY environment variable is not set")

\* output, lines 85-87
output(data) == stdout' = Append(stdout, data)

-----------------------------------------------------------------------------
(* fetch_all_cards, lines 101-118 *)

\* lines 103-105
FetchParams(board, include_archived) ==
    ("board" :> board) @@ ("count" :> JInt(100))
        @@ (IF include_archived THEN ("includeArchived" :> JStr(<<"true">>)) ELSE EmptyObj)

\* cards_data.get("cards", [])
CardsOf(d) == GetOr(d, "cards", JList(<<>>)).v

\* A slip that would keep only the page just read
ExtendCardsReplaces(acc, d) == CardsOf(d)

\* all_cards.extend(...) of line 116
ExtendCards(acc, d) == acc \o CardsOf(d)

\* A slip that would hand the error of a later page to the caller
LaterPageErrorPropagates(acc, r) == JObj(r)

\* lines 114-115 and 118: an error on a later page breaks out of the loop and
\* the cards gathered so far are returned
LaterPageError(acc, r) == JList(acc)

\* lines 106-110: the first request, sent without a page parameter
FetchFirst ==
    /\ pc = "fetch"
    /\ \/ NoApiKey /\ UNCHANGED <<calls, fetchVars>>
       \/ /\ env.hasKey
          /\ LET req == Request("GET", "/cards", Null, params, Null)
                 r == api_request(req)
             IN  /\ calls' = Append(calls, req)
                 /\ cards_data' = r
                 /\ IF IsError(r)
                    THEN /\ fetched' = JObj(r)
                         /\ pc' = retpc
                         /\ UNCHANGED <<all_cards, page>>
                    ELSE /\ all_cards' = CardsOf(r)
                         /\ page' = 2
                         /\ pc' = "fetch_loop"
                         /\ UNCHANGED fetched
          /\ UNCHANGED <<stdout, exitcode, params, retpc>>
    /\ UNCHANGED <<inputs, searchVars, filterVars, wipVars>>

\* A slip that would step over every other page
PageIncrementSkips(p) == p + 2

\* page += 1, line 117
PageIncrement(p) == p + 1

\* params["page"] = page, line 112
WithPage(ps, p) == [k \in DOMAIN ps \cup {"page"} |-> IF k = "page" THEN JInt(p) ELSE ps[k]]

\* lines 111-117: one turn of the loop, entered while cards_data has hasMore
FetchNext ==
    /\ pc = "fetch_loop"
    /\ Truthy(Get(cards_data, "hasMore"))
    /\ \/ NoApiKey /\ UNCHANGED <<calls, fetchVars>>
       \/ /\ env.hasKey
          /\ LET ps == WithPage(params, page)
                 req == Request("GET", "/cards", Null, ps, Null)
                 r == api_request(req)
             IN  /\ params' = ps
                 /\ calls' = Append(calls, req)
                 /\ cards_data' = r
                 /\ IF IsError(r)
                    THEN /\ fetched' = LaterPageError(all_cards, r)
                         /\ pc' = retpc
                         /\ UNCHANGED <<all_cards, page>>
                    ELSE /\ all_cards' = ExtendCards(all_cards, r)
                         /\ page' = PageIncrement(page)
                         /\ UNCHANGED <<fetched, pc>>
          /\ UNCHANGED <<stdout, exitcode, retpc>>
    /\ UNCHANGED <<inputs, searchVars, filterVars, wipVars>>

\* line 118, reached when cards_data has no (true) hasMore
FetchReturn ==
    /\ pc = "fetch_loop"
    /\ ~Truthy(Get(cards_data, "hasMore"))
    /\ fetched' = JList(all_cards)
    /\ pc' = retpc
    /\ UNCHANGED <<env, args, server, calls, stdout, exitcode, params, cards_data,
                   all_cards, page, retpc, searchVars, filterVars, wipVars>>


-----------------------------------------------------------------------------
(* Strings: str.lower(), str(), the `in` substring test *)

UpperCase == <<"A", "B", "C", "D", "E", "F", "G", "H", "I", "J", "K", "L", "M",
               "N", "O", "P", "Q", "R", "S", "T", "U", "V", "W", "X", "Y", "Z">>

LowerCase == <<"a", "b", "c", "d", "e", "f", "g", "h", "i", "j", "k", "l", "m",
               "n", "o", "p", "q", "r", "s", "t", "u", "v", "w", "x", "y", "z">>

LowerChar(c) ==
    IF \E i \in 1..26 : UpperCase[i] = c
    THEN LowerCase[CHOOSE i \in 1..26 : UpperCase[i] = c]
    ELSE c

\* s.lower()
Lower(s) == [i \in 1..Len(s) |-> LowerChar(s[i])]

\* q in s, for strings
Contains(s, q) == \E i \in 0..(Len(s) - Len(q)) : SubSeq(s, i + 1, i + Len(q)) = q

DigitChars == <<"0", "1", "2", "3", "4", "5", "6", "7", "8", "9">>

\* str(n) for an int n
RECURSIVE IntToStr(_)
IntToStr(n) ==
    IF n < 0 THEN <<"-">> \o IntToStr(0 - n)
    ELSE IF n < 10 THEN <<DigitChars[n + 1]>>
    ELSE IntToStr(n \div 10) \o <<DigitChars[(n % 10) + 1]>>

\* str(v) for the values str() is applied to (line 140)
PyStr(v) ==
    CASE v.t = "str" -> v.v
      [] v.t = "int" -> IntToStr(v.v)
      [] v.t = "bool" -> IF v.v THEN <<"T", "r", "u", "e">> ELSE <<"F", "a", "l", "s", "e">>
      [] v.t = "null" -> <<"N", "o", "n", "e">>

\* v or "": v itself when it is truthy, the empty string otherwise
OrEmpty(v) == IF Truthy(v) THEN v ELSE JStr(<<>>)

-----------------------------------------------------------------------------
(* get_card_field, lines 121-126, and filter_cards, lines 129-151 *)

get_card_field(card, field) ==
    IF field \in DOMAIN card
    THEN card[field]
    ELSE Get(GetOr(card, "CardItem", JObj(EmptyObj)).v, field)

\* lines 134, 136, 138: `if value and (field or "").lower() != value.lower()`
StrMismatch(card, field, value) ==
    /\ Truthy(value)
    /\ Lower(OrEmpty(get_card_field(card, field)).v) # Lower(value.v)

\* line 140
PriorityMismatch(card, priority) ==
    /\ Truthy(priority)
    /\ PyStr(OrEmpty(get_card_field(card, "priority"))) # PyStr(priority)

\* line 142
BlockedMismatch(card, blocked) ==
    blocked /\ ~Truthy(get_card_field(card, "blocked"))

\* lines 144-149
QueryMismatch(card, query) ==
    /\ Truthy(query)
    /\ LET q == Lower(query.v)
           title == Lower(OrEmpty(get_card_field(card, "title")).v)
           desc == Lower(OrEmpty(get_card_field(card, "description")).v)
       IN  ~Contains(title, q) /\ ~Contains(desc, q)

\* Whether the loop body reaches a `continue` for this card
Skipped(card, F) ==
    \/ StrMismatch(card, "label", F.label)
    \/ StrMismatch(card, "owner", F.owner)
    \/ StrMismatch(card, "columnTitle", F.column)
    \/ PriorityMismatch(card, F.priority)
    \/ BlockedMismatch(card, F.blocked)
    \/ QueryMismatch(card, F.query)

\* A slip that would put each kept card in front of the ones before it
ResultPrepend(result, card) == <<card>> \o result

\* line 150: result.append(card)
ResultAppend(result, card) == Append(result, card)

\* lines 132-151: the loop over cards, result being the list built so far
RECURSIVE FilterLoop(_, _, _)
FilterLoop(cards, F, result) ==
    IF cards = <<>> THEN result
    ELSE FilterLoop(Tail(cards), F,
                    IF Skipped(Head(cards), F) THEN result
                    ELSE ResultAppend(result, Head(cards)))

\* F holds the keyword arguments label, owner, column, priority, blocked, query
filter_cards(cards, F) == FilterLoop(cards, F, <<>>)

\* The keyword arguments a handler passes to filter_cards (lines 184-188)
FilterOf(a) == [label |-> a.label, owner |-> a.owner, column |-> a.column,
                priority |-> a.priority, blocked |-> a.blocked, query |-> a.query]

-----------------------------------------------------------------------------
(* main, lines 529-557, and what the handlers share *)

\* d[k] = v on a dict
Put(d, k, v) == [x \in DOMAIN d \cup {k} |-> IF x = k THEN v ELSE d[x]]

\* o.get(key, o) for a wrapper key: the wrapped item, or the object itself
Unwrap(o, key) == IF key \in DOMAIN o THEN o[key].v ELSE o

\* parser.print_help(): the usage text, which is not a JSON document
HelpText == JStr(<<"usage: kanbanzone_api [-h] [--board BOARD] ...">>)

\* A handler returns to main (line 554) and the interpreter ends with status 0
Return ==
    /\ exitcode' = 0
    /\ pc' = "exited"

\* The subcommands of the commands table, lines 537-550
Commands == {"boards", "board", "cards", "card", "create-card", "create-cards",
             "update-card", "move-card", "link-card", "unlink-card", "search-cards",
             "wip-check"}

\* lines 533-557: no command prints the help and exits 1, a command is
\* dispatched to its handler
Main ==
    /\ pc = "main"
    /\ IF args.command = "" \/ args.command \notin Commands
       THEN /\ stdout' = Append(stdout, HelpText)
            /\ exitcode' = 1
            /\ pc' = "exited"
       ELSE /\ pc' = args.command
            /\ UNCHANGED <<stdout, exitcode>>
    /\ UNCHANGED <<inputs, calls, fetchVars, searchVars, filterVars, wipVars>>

\* get_default_board and require_board, lines 32-40: args.board or the
\* environment's board; the caller exits when it is not truthy
require_board == IF Truthy(args.board) THEN args.board ELSE env.board

NoBoard ==
    /\ ~Truthy(require_board)
    /\ error_exit("Board ID required. Use --board or set KANBANZONE_BOARD_ID")

\* fetch_all_cards(board, include_archived) called, to return at `ret`
CallFetchAllCards(board, include_archived, ret) ==
    /\ params' = FetchParams(board, include_archived)
    /\ retpc' = ret
    /\ pc' = "fetch"
    /\ cards_data' = EmptyObj
    /\ all_cards' = <<>>
    /\ page' = 0

\* isinstance(x, dict) and x.get("error"), for the value fetch_all_cards returned
FetchFailed(x) == x.t = "obj" /\ IsError(x.v)

-----------------------------------------------------------------------------
(* cmd_cards, lines 174-201 *)

\* lines 176-177
has_filters ==
    \/ Truthy(args.label) \/ Truthy(args.owner) \/ Truthy(args.column)
    \/ Truthy(args.priority) \/ args.blocked \/ Truthy(args.query)

\* lines 196-200
CardsParams(board) ==
    LET base == ("board" :> board) @@ ("page" :> args.page) @@ ("count" :> args.count)
        days == IF args.days_since_update # Null
                THEN Put(base, "daysSinceLastUpdate", args.days_since_update) ELSE base
    IN  IF args.include_archived THEN Put(days, "includeArchived", JStr(<<"true">>)) ELSE days

\* lines 175-180 and 195-201
CmdCards ==
    /\ pc = "cards"
    /\ \/ NoBoard /\ UNCHANGED <<calls, fetchVars>>
       \/ /\ Truthy(require_board)
          /\ has_filters
          /\ CallFetchAllCards(require_board, args.include_archived, "cards_fetched")
          /\ UNCHANGED <<calls, stdout, exitcode, fetched>>
       \/ /\ Truthy(require_board)
          /\ ~has_filters
          /\ \/ NoApiKey /\ UNCHANGED calls
             \/ /\ env.hasKey
                /\ LET req == Request("GET", "/cards", Null, CardsParams(require_board), Null)
                   IN  /\ calls' = Append(calls, req)
                       /\ output(api_request(req))
                       /\ Return
          /\ UNCHANGED fetchVars
    /\ UNCHANGED <<inputs, searchVars, filterVars, wipVars>>

\* lines 189-194
CardsDocument(cards) ==
    ("count" :> JInt(Len(cards))) @@ ("totalAvailable" :> JInt(Len(cards)))
        @@ ("cards" :> JList(cards)) @@ ("hasMore" :> JBool(FALSE))

\* lines 181-194, after fetch_all_cards has returned
CardsFetched ==
    /\ pc = "cards_fetched"
    /\ IF FetchFailed(fetched)
       THEN /\ output(fetched.v)
            /\ UNCHANGED filtered
       ELSE /\ filtered' = filter_cards(fetched.v, FilterOf(args))
            /\ output(CardsDocument(filtered'))
    /\ Return
    /\ UNCHANGED <<inputs, calls, fetchVars, searchVars, refiltered, wipVars>>

-----------------------------------------------------------------------------
(* cmd_wip_check, lines 354-405 *)

\* lines 355-362
CmdWipCheck ==
    /\ pc = "wip-check"
    /\ \/ NoBoard /\ UNCHANGED <<calls, board_data, fetchVars>>
       \/ Truthy(require_board) /\ NoApiKey /\ UNCHANGED <<calls, board_data, fetchVars>>
       \/ /\ Truthy(require_board)
          /\ env.hasKey
          /\ LET req == Request("GET", "/board/{}", require_board,
                                ("includeColumns" :> JStr(<<"true">>)), Null)
                 r == api_request(req)
             IN  /\ calls' = Append(calls, req)
                 /\ board_data' = r
                 /\ IF IsError(r)
                    THEN output(r) /\ Return /\ UNCHANGED fetchVars
                    ELSE /\ CallFetchAllCards(require_board, FALSE, "wip_fetched")
                         /\ UNCHANGED <<stdout, exitcode, fetched>>
    /\ UNCHANGED <<inputs, searchVars, filterVars, col_counts, report>>

\* A slip that would read the column identifier at the top level only
ColumnOfTopLevel(card) == Get(card, "columnId")

\* line 370
ColumnOf(card) == get_card_field(card, "columnId")

\* lines 368-372: the loop over the cards, counts being col_counts so far
RECURSIVE CountLoop(_, _)
CountLoop(cards, counts) ==
    IF cards = <<>> THEN counts
    ELSE LET cid == ColumnOf(Head(cards))
         IN  CountLoop(Tail(cards),
                       IF Truthy(cid) THEN Put(counts, cid, GetOr(counts, cid, 0) + 1)
                       ELSE counts)

\* lines 375-379
ColumnsOf(data) ==
    LET boards == GetOr(data, "boards", JList(<<>>)).v
    IN  IF boards # <<>>
        THEN GetOr(Unwrap(boards[1], "BoardItem"), "columns", JList(<<>>)).v
        ELSE <<>>

\* lines 390-394
Violations(current, min_wip, max_wip) ==
    (IF Truthy(max_wip) /\ current > max_wip.v
     THEN <<JStr(<<"over max (">> \o IntToStr(current) \o <<"/">>
                    \o IntToStr(max_wip.v) \o <<")">>)>>
     ELSE <<>>)
    \o (IF Truthy(min_wip) /\ current < min_wip.v
        THEN <<JStr(<<"under min (">> \o IntToStr(current) \o <<"/">>
                       \o IntToStr(min_wip.v) \o <<")">>)>>
        ELSE <<>>)

\* lines 386-403: the report entry of one column
ReportEntry(col, counts) ==
    LET col_id == GetOr(col, "columnId", Get(col, "boardTitle"))
        current == GetOr(counts, col_id, 0)
        min_wip == Get(col, "minWIP")
        max_wip == Get(col, "maxWIP")
    IN  ("columnId" :> col_id) @@ ("columnTitle" :> Get(col, "title"))
            @@ ("columnState" :> Get(col, "columnState"))
            @@ ("currentCards" :> JInt(current))
            @@ ("minWIP" :> min_wip) @@ ("maxWIP" :> max_wip)
            @@ ("violations" :> JList(Violations(current, min_wip, max_wip)))

\* A slip that would report every column, whatever its type
ReportsColumnAlways(col) == TRUE

\* line 384: only the columns of type CARD are reported
ReportsColumn(col) == Get(col, "type") = JStr(<<"CARD">>)

\* lines 381-403: the loop over the columns, rep being report so far
RECURSIVE ReportLoop(_, _, _)
ReportLoop(columns, counts, rep) ==
    IF columns = <<>> THEN rep
    ELSE LET col == Unwrap(Head(columns), "ColumnItem")
         IN  ReportLoop(Tail(columns), counts,
                        IF ReportsColumn(col) THEN Append(rep, ReportEntry(col, counts))
                        ELSE rep)

\* lines 363-405, after fetch_all_cards has returned
WipReport ==
    /\ pc = "wip_fetched"
    /\ IF FetchFailed(fetched)
       THEN /\ output(fetched.v)
            /\ UNCHANGED <<col_counts, report>>
       ELSE /\ col_counts' = CountLoop(fetched.v, EmptyObj)
            /\ report' = ReportLoop(ColumnsOf(board_data), col_counts', <<>>)
            /\ output(("board" :> require_board) @@ ("columns" :> JList(report')))
    /\ Return
    /\ UNCHANGED <<inputs, calls, fetchVars, searchVars, filterVars, board_data>>

-----------------------------------------------------------------------------
(* cmd_search_cards, lines 323-351 *)

\* A slip that would lose the `not` before the filter flags
SearchUnnarrowedFlagsGiven ==
    /\ ~Truthy(args.query)
    /\ (Truthy(args.label) \/ Truthy(args.owner) \/ Truthy(args.priority) \/ args.blocked)

\* line 324: neither a query nor a filter flag
SearchUnnarrowed ==
    /\ ~Truthy(args.query)
    /\ ~(Truthy(args.label) \/ Truthy(args.owner) \/ Truthy(args.priority) \/ args.blocked)

\* lines 341-345: the keyword arguments of the search, which has no column
SearchFilterOf(a) == [label |-> a.label, owner |-> a.owner, column |-> Null,
                      priority |-> a.priority, blocked |-> a.blocked, query |-> a.query]

\* lines 323-332
CmdSearchCards ==
    /\ pc = "search-cards"
    /\ \/ /\ SearchUnnarrowed
          /\ error_exit("Provide --query and/or filter flags (--label, --owner, --priority, --blocked).")
          /\ UNCHANGED <<calls, boards_data, bidx, all_results>>
       \/ ~SearchUnnarrowed /\ NoApiKey /\ UNCHANGED <<calls, boards_data, bidx, all_results>>
       \/ /\ ~SearchUnnarrowed
          /\ env.hasKey
          /\ LET req == Request("GET", "/boards", Null, EmptyObj, Null)
                 r == api_request(req)
             IN  /\ calls' = Append(calls, req)
                 /\ boards_data' = r
                 /\ IF IsError(r)
                    THEN output(r) /\ Return /\ UNCHANGED <<bidx, all_results>>
                    ELSE /\ all_results' = <<>>
                         /\ bidx' = 1
                         /\ pc' = "search_loop"
                         /\ UNCHANGED <<stdout, exitcode>>
    /\ UNCHANGED <<inputs, fetchVars, fetchlog, filterVars, wipVars>>

\* boards_data.get("boards", []), line 333
BoardItems == GetOr(boards_data, "boards", JList(<<>>)).v

\* line 336
SkipsBoard(bi) == Truthy(Get(bi, "isArchived"))

\* lines 333-338: the loop reaches the next board_item
SearchBoard ==
    /\ pc = "search_loop"
    /\ bidx <= Len(BoardItems)
    /\ LET bi == Unwrap(BoardItems[bidx], "BoardItem")
           board_id == Get(bi, "publicId")
       IN  IF SkipsBoard(bi)
           THEN /\ bidx' = bidx + 1
                /\ UNCHANGED <<pc, fetchVars>>
           ELSE /\ CallFetchAllCards(board_id, args.include_archived, "search_fetched")
                /\ UNCHANGED <<bidx, fetched>>
    /\ UNCHANGED <<inputs, calls, stdout, exitcode, boards_data, all_results, fetchlog,
                   filterVars, wipVars>>

\* A slip that would keep only the cards of the last board
ExtendResultsReplaces(results, cards) == cards

\* line 346: all_results.extend(filtered)
ExtendResults(results, cards) == results \o cards

\* lines 339-346, after fetch_all_cards has returned for the board at bidx
SearchFetched ==
    /\ pc = "search_fetched"
    /\ fetchlog' = Append(fetchlog, [idx |-> bidx, result |-> fetched])
    /\ IF FetchFailed(fetched)
       THEN UNCHANGED <<all_results, filtered>>
       ELSE /\ filtered' = filter_cards(fetched.v, SearchFilterOf(args))
            /\ all_results' = ExtendResults(all_results, filtered')
    /\ bidx' = bidx + 1
    /\ pc' = "search_loop"
    /\ UNCHANGED <<inputs, calls, stdout, exitcode, fetchVars, boards_data, refiltered,
                   wipVars>>

\* lines 348-351, when the loop has passed the last board_item
SearchOutput ==
    /\ pc = "search_loop"
    /\ bidx > Len(BoardItems)
    /\ output(("count" :> JInt(Len(all_results))) @@ ("cards" :> JList(all_results)))
    /\ Return
    /\ UNCHANGED <<inputs, calls, fetchVars, searchVars, filterVars, wipVars>>

-----------------------------------------------------------------------------
(* The handlers that send one request and print its answer                  *)

\* output(api_request(method, path, params, body)): get_api_key exits when the
\* key is missing (line 50), else the answer is printed and the handler returns
OutputRequest(method, ep, arg, ps, body) ==
    \/ NoApiKey /\ UNCHANGED calls
    \/ /\ env.hasKey
       /\ LET req == Request(method, ep, arg, ps, body)
          IN  /\ calls' = Append(calls, req)
              /\ output(api_request(req))
              /\ Return

\* `if v: d[k] = v`
PutIf(d, k, v) == IF Truthy(v) THEN Put(d, k, v) ELSE d

\* `if flag: d[k] = v` for a store_true option
PutFlag(d, k, flag, v) == IF flag THEN Put(d, k, v) ELSE d

\* cmd_boards, lines 157-163
BoardsParams ==
    PutFlag(PutFlag(EmptyObj, "includeArchived", args.include_archived, JStr(<<"true">>)),
            "includeColumns", args.include_columns, JStr(<<"true">>))

CmdBoards ==
    /\ pc = "boards"
    /\ OutputRequest("GET", "/boards", Null, BoardsParams, Null)
    /\ UNCHANGED <<inputs, fetchVars, searchVars, filterVars, wipVars>>

\* cmd_board, lines 166-171
CmdBoard ==
    /\ pc = "board"
    /\ \/ NoBoard /\ UNCHANGED calls
       \/ /\ Truthy(require_board)
          /\ OutputRequest("GET", "/board/{}", require_board,
                           PutFlag(EmptyObj, "includeColumns", args.include_columns,
                                   JStr(<<"true">>)), Null)
    /\ UNCHANGED <<inputs, fetchVars, searchVars, filterVars, wipVars>>

\* cmd_card, lines 204-207
CmdCard ==
    /\ pc = "card"
    /\ \/ NoBoard /\ UNCHANGED calls
       \/ /\ Truthy(require_board)
          /\ OutputRequest("GET", "/card", Null,
                           ("board" :> require_board) @@ ("number" :> args.number), Null)
    /\ UNCHANGED <<inputs, fetchVars, searchVars, filterVars, wipVars>>

\* str.strip() of a text whose only white space is the blank
RECURSIVE LStrip(_)
LStrip(s) == IF s # <<>> /\ Head(s) = " " THEN LStrip(Tail(s)) ELSE s

RECURSIVE RStrip(_)
RStrip(s) == IF s # <<>> /\ s[Len(s)] = " " THEN RStrip(SubSeq(s, 1, Len(s) - 1)) ELSE s

Strip(s) == RStrip(LStrip(s))

\* "=" in item
HasEquals(item) == \E i \in DOMAIN item : item[i] = "="

\* item.split("=", 1) and the two strips, lines 97-98
CustomField(item) ==
    LET i == CHOOSE j \in DOMAIN item : item[j] = "=" /\ \A k \in 1..(j - 1) : item[k] # "="
    IN  ("label" :> JStr(Strip(SubSeq(item, 1, i - 1))))
            @@ ("value" :> JStr(Strip(SubSeq(item, i + 1, Len(item)))))

\* parse_custom_fields, lines 90-99: the first item without "=" ends the
\* process, else every item becomes a label and a value
BadItems(raw_list) == {i \in DOMAIN raw_list : ~HasEquals(raw_list[i].v)}

FirstBadItem(raw_list) ==
    raw_list[CHOOSE i \in BadItems(raw_list) : \A j \in BadItems(raw_list) : i <= j].v

parse_custom_fields(raw_list) == JList([i \in DOMAIN raw_list |-> CustomField(raw_list[i].v)])

InvalidCustomField(item) ==
    ("error" :> JBool(TRUE))
        @@ ("message" :> JStr(<<"Invalid custom field format: '">> \o item
                                    \o <<"'. Use 'Label=Value'.">>))

\* No item of --custom-field is malformed
CustomFieldsFine ==
    IF Truthy(args.custom_field) THEN BadItems(args.custom_field.v) = {} ELSE TRUE

\* --custom-field given and one of its items malformed: error_exit, line 96
CustomFieldExit ==
    /\ ~CustomFieldsFine
    /\ stdout' = Append(stdout, InvalidCustomField(FirstBadItem(args.custom_field.v)))
    /\ exitcode' = 1
    /\ pc' = "exited"

\* `if args.custom_field: body["customFields"] = parse_custom_fields(...)`
PutCustomFields(body) ==
    IF Truthy(args.custom_field)
    THEN Put(body, "customFields", parse_custom_fields(args.custom_field.v)) ELSE body

\* cmd_create_card, lines 211-234: the body of the request
CreateCardBody(board) ==
    LET b0 == ("board" :> board) @@ ("title" :> args.title)
        b1 == PutIf(b0, "columnId", args.column_id)
        b2 == PutIf(b1, "description", args.description)
        b3 == PutIf(b2, "owner", args.owner)
        b4 == PutIf(b3, "priority", args.priority)
        b5 == PutIf(b4, "label", args.label)
        b6 == PutIf(b5, "size", args.size)
        b7 == PutIf(b6, "dueAt", args.due)
        b8 == PutIf(b7, "templateId", args.template_id)
        b9 == PutFlag(b8, "addToTop", args.add_to_top, JBool(TRUE))
        b10 == PutIf(b9, "watchers", args.watcher)
    IN  PutCustomFields(b10)

\* cmd_create_card, lines 210-235
CmdCreateCard ==
    /\ pc = "create-card"
    /\ \/ NoBoard /\ UNCHANGED calls
       \/ Truthy(require_board) /\ CustomFieldExit /\ UNCHANGED calls
       \/ /\ Truthy(require_board)
          /\ CustomFieldsFine
          /\ OutputRequest("POST", "/card", Null, EmptyObj, JObj(CreateCardBody(require_board)))
    /\ UNCHANGED <<inputs, fetchVars, searchVars, filterVars, wipVars>>

\* An exception nothing catches: the traceback goes to standard error and
\* the interpreter ends with status 1
Uncaught ==
    /\ exitcode' = 1
    /\ pc' = "exited"
    /\ UNCHANGED stdout

\* cmd_create_cards, lines 238-244: open and json.load raise on a file that is
\* missing or is not JSON; the board is added to a document without one
CmdCreateCards ==
    /\ pc = "create-cards"
    /\ \/ env.file.t # "obj" /\ Uncaught /\ UNCHANGED calls
       \/ /\ env.file.t = "obj"
          /\ "board" \in DOMAIN env.file.v
          /\ OutputRequest("POST", "/cards", Null, EmptyObj, env.file)
       \/ /\ env.file.t = "obj"
          /\ "board" \notin DOMAIN env.file.v
          /\ \/ NoBoard /\ UNCHANGED calls
             \/ /\ Truthy(require_board)
                /\ OutputRequest("POST", "/cards", Null, EmptyObj,
                                 JObj(Put(env.file.v, "board", require_board)))
    /\ UNCHANGED <<inputs, fetchVars, searchVars, filterVars, wipVars>>

\* args.blocked.lower() == "true", line 267
BlockedFlag(text) == JBool(Lower(text.v) = <<"t", "r", "u", "e">>)

\* cmd_update_card, lines 248-276: the body of the request
UpdateCardBody ==
    LET b1 == PutIf(EmptyObj, "title", args.title)
        b2 == PutIf(b1, "description", args.description)
        b3 == PutIf(b2, "columnId", args.column_id)
        b4 == PutIf(b3, "owner", args.owner)
        b5 == PutIf(b4, "priority", args.priority)
        b6 == PutIf(b5, "label", args.label)
        b7 == PutIf(b6, "size", args.size)
        b8 == PutIf(b7, "dueAt", args.due)
        b9 == IF args.blocked # Null THEN Put(b8, "blocked", BlockedFlag(args.blocked)) ELSE b8
        b10 == PutIf(b9, "blockedBy", args.blocked_by)
        b11 == PutIf(b10, "blockedReason", args.blocked_reason)
        b12 == PutIf(b11, "board", args.mirror_board)
        b13 == PutIf(b12, "watchers", args.watcher)
    IN  PutCustomFields(b13)

\* cmd_update_card, lines 247-279
CmdUpdateCard ==
    /\ pc = "update-card"
    /\ \/ CustomFieldExit /\ UNCHANGED calls
       \/ /\ CustomFieldsFine
          /\ UpdateCardBody = EmptyObj
          /\ error_exit("No fields to update. Provide at least one field flag.")
          /\ UNCHANGED calls
       \/ /\ CustomFieldsFine
          /\ UpdateCardBody # EmptyObj
          /\ OutputRequest("PUT", "/card/{}", args.id, EmptyObj, JObj(UpdateCardBody))
    /\ UNCHANGED <<inputs, fetchVars, searchVars, filterVars, wipVars>>

\* `if args.mirror_board: body["board"] = args.mirror_board`
Mirrored(body) == PutIf(body, "board", args.mirror_board)

\* cmd_move_card, lines 282-286
CmdMoveCard ==
    /\ pc = "move-card"
    /\ OutputRequest("POST", "/card/{}/move", args.id, EmptyObj,
                     JObj(Mirrored(("columnId" :> args.column_id))))
    /\ UNCHANGED <<inputs, fetchVars, searchVars, filterVars, wipVars>>

\* `args.type or default`
TypeOr(default) == IF Truthy(args.type) THEN args.type ELSE JStr(<<default>>)

\* cmd_link_card, lines 290-298: the link, when --card or --url is truthy
LinkToAdd ==
    IF Truthy(args.card)
    THEN ("card" :> args.card) @@ ("type" :> TypeOr("related"))
    ELSE PutIf(("url" :> args.url) @@ ("type" :> TypeOr("external")), "title", args.title)

\* The body {"links": {verb: [link]}} of lines 302 and 317
LinksBody(verb, link) == ("links" :> JObj((verb :> JList(<<link>>))))

\* Neither --card nor --url is truthy
NoLinkTarget == ~Truthy(args.card) /\ ~Truthy(args.url)

\* cmd_link_card, lines 289-305
CmdLinkCard ==
    /\ pc = "link-card"
    /\ \/ /\ NoLinkTarget
          /\ error_exit("Provide either --card or --url to link.")
          /\ UNCHANGED calls
       \/ /\ ~NoLinkTarget
          /\ OutputRequest("PUT", "/card/{}", args.id, EmptyObj,
                           JObj(Mirrored(LinksBody("add", LinkToAdd))))
    /\ UNCHANGED <<inputs, fetchVars, searchVars, filterVars, wipVars>>

\* cmd_unlink_card, lines 309-313: the link, when --card or --url is truthy
LinkToRemove == IF Truthy(args.card) THEN ("card" :> args.card) ELSE ("url" :> args.url)

\* cmd_unlink_card, lines 308-320
CmdUnlinkCard ==
    /\ pc = "unlink-card"
    /\ \/ /\ NoLinkTarget
          /\ error_exit("Provide either --card or --url to unlink.")
          /\ UNCHANGED calls
       \/ /\ ~NoLinkTarget
          /\ OutputRequest("PUT", "/card/{}", args.id, EmptyObj,
                           JObj(Mirrored(LinksBody("remove", LinkToRemove))))
    /\ UNCHANGED <<inputs, fetchVars, searchVars, filterVars, wipVars>>

-----------------------------------------------------------------------------
(* The values every specification starts from *)

InitState ==
    /\ calls = <<>>
    /\ stdout = <<>>
    /\ exitcode = -1
    /\ params = EmptyObj
    /\ retpc = "none"
    /\ cards_data = EmptyObj
    /\ page = 0
    /\ fetched = Null
    /\ boards_data = EmptyObj
    /\ bidx = 0
    /\ all_results = <<>>
    /\ fetchlog = <<>>
    /\ filtered = <<>>
    /\ refiltered = <<>>
    /\ board_data = EmptyObj
    /\ col_counts = EmptyObj
    /\ report = <<>>

InitLocals == InitState /\ all_cards = <<>>

NoServer == [boards |-> HttpError, board |-> HttpError, other |-> HttpError,
             cards |-> EmptyObj]

-----------------------------------------------------------------------------
(* SpecFetch: one call fetch_all_cards(board, include_archived) against a   *)
(* server holding 1..MaxPages pages, the records of page i numbered         *)
(* 10*i+1, 10*i+2, ... so that every record of the server is distinct.      *)

Board1 == JStr(<<"b", "1">>)

NumberedCard(i, j) == ("number" :> JInt(10 * i + j)) @@ ("title" :> JStr(<<"t">>))

NumberedCards(i, n) == [j \in 1..n |-> NumberedCard(i, j)]

\* The shapes of an answer: a page of 0..MaxPageSize records with hasMore
\* true or false, a page without its hasMore key, a page without its cards
\* key, and the two error values
PageShapes ==
    [kind : {"page"}, size : 0..MaxPageSize, more : BOOLEAN]
        \cup [kind : {"nomorekey", "nocardskey", "http", "url"}, size : {1}, more : {TRUE}]

ReplyAt(i, sh) ==
    CASE sh.kind = "page" -> Page(NumberedCards(i, sh.size), sh.more)
      [] sh.kind = "nomorekey" -> ("cards" :> JList(NumberedCards(i, sh.size)))
      [] sh.kind = "nocardskey" -> ("hasMore" :> JBool(sh.more))
      [] sh.kind = "http" -> HttpError
      [] sh.kind = "url" -> UrlError

PageSeqs ==
    UNION {{[i \in 1..n |-> ReplyAt(i, f[i])] : f \in [1..n -> PageShapes]} : n \in 1..MaxPages}

InitFetch ==
    /\ env \in [hasKey : BOOLEAN, board : {Null}]
    /\ args \in [command : {"fetch_all_cards"}, board : {Board1}, include_archived : BOOLEAN]
    /\ \E ps \in PageSeqs : server = [NoServer EXCEPT !.cards = (Board1 :> ps)]
    /\ pc = "call"
    /\ InitLocals

\* The call fetch_all_cards(board, include_archived); lines 103-105
CallFetch ==
    /\ pc = "call"
    /\ params' = FetchParams(args.board, args.include_archived)
    /\ retpc' = "done"
    /\ pc' = "fetch"
    /\ UNCHANGED <<inputs, calls, stdout, exitcode, cards_data, all_cards, page, fetched,
                   searchVars, filterVars, wipVars>>

NextFetch == CallFetch \/ FetchFirst \/ FetchNext \/ FetchReturn

SpecFetch == InitFetch /\ [][NextFetch]_vars


\* What the server answers to the request for page i of Board1
Served(i) ==
    IF i \in 1..Len(server.cards[Board1]) THEN server.cards[Board1][i] ELSE Page(<<>>, FALSE)

HasMore(d) == Truthy(Get(d, "hasMore"))

\* The records of pages 1..n, in page order
RecordsUpTo(n) == Concat([i \in 1..n |-> CardsOf(Served(i))])

\* Pages 1..n answer without an error and with hasMore true
GoOn(n) == \A i \in 1..n : ~IsError(Served(i)) /\ HasMore(Served(i))

\* The server holds exactly n pages: 1..n-1 say hasMore, page n ends the set
Complete(n) == GoOn(n - 1) /\ ~IsError(Served(n)) /\ ~HasMore(Served(n))

\* C1 (pagination completeness): when no request errors, pages 1..n-1 answer
\* hasMore = true and page n answers hasMore = false, fetch_all_cards returns
\* exactly the records of pages 1..n concatenated in page order; the records
\* of the server being pairwise distinct, none is dropped, repeated or moved.
C1_PaginationComplete ==
    pc = "done" =>
        \A n \in 1..(MaxPages + 1) : Complete(n) => fetched = JList(RecordsUpTo(n))

\* A three-page fetch of full pages has returned
C1_Witness ==
    /\ pc = "done"
    /\ Complete(3)
    /\ \A i \in 1..3 : Len(CardsOf(Served(i))) = 2
    /\ Len(fetched.v) = 6

\* C2 (pagination partial failure): when pages 1..k-1 (k >= 2) succeed with
\* hasMore = true and the request for page k errors, fetch_all_cards stops
\* (page k is its last request) and returns the records of pages 1..k-1 as a
\* list; it returns an error value only when the first request errors, and
\* then nothing has been accumulated.
C2_PartialFailure ==
    pc = "done" =>
        /\ \A k \in 2..MaxPages :
              (GoOn(k - 1) /\ IsError(Served(k))) =>
                  /\ fetched = JList(RecordsUpTo(k - 1))
                  /\ Len(calls) = k
        /\ (fetched.t = "obj") <=> IsError(Served(1))
        /\ IsError(Served(1)) =>
              /\ fetched = JObj(Served(1))
              /\ all_cards = <<>>
              /\ Len(calls) = 1

\* Page 3 failed after two full pages, and the four records came back
C2_Witness ==
    /\ pc = "done"
    /\ GoOn(2)
    /\ IsError(Served(3))
    /\ fetched.t = "list"
    /\ Len(fetched.v) = 4


-----------------------------------------------------------------------------
(* SpecFilter: filter_cards applied to a list of at most MaxCards cards     *)
(* drawn from FilterPool, under the filters of Filters, and applied again   *)
(* to its own result.                                                       *)

S_Urgent == <<"U", "r", "g", "e", "n", "t">>
S_URGENT == <<"U", "R", "G", "E", "N", "T">>
S_urgent == <<"u", "r", "g", "e", "n", "t">>
S_bug == <<"b", "u", "g">>

\* A card with every field the filter reads, and its column identifier
Fields(label, owner, column, priority, blocked, title, description, columnId) ==
    ("label" :> label) @@ ("owner" :> owner) @@ ("columnTitle" :> column)
        @@ ("priority" :> priority) @@ ("blocked" :> blocked) @@ ("title" :> title)
        @@ ("description" :> description) @@ ("columnId" :> columnId)

\* The nested shape: the fields under CardItem
Nested(o) == ("CardItem" :> JObj(o))

FilterPool ==
    { Fields(JStr(S_Urgent), JStr(<<"A", "l">>), JStr(<<"D", "o">>), JInt(1), JBool(TRUE),
             JStr(<<"F", "i", "x">>), JStr(<<"x">>), JStr(<<"c", "1">>)),
      Nested(Fields(JStr(S_URGENT), JStr(<<"A", "L">>), JStr(<<"D", "O">>), JStr(<<"1">>),
                    JBool(FALSE), JStr(<<"a">>), JStr(<<"F", "I", "X", " ", "i", "t">>),
                    JStr(<<"c", "2">>))),
      ("label" :> JStr(S_urgent)) @@ ("title" :> JStr(<<"t">>)),
      Fields(Null, Null, Null, Null, Null, Null, Null, Null),
      EmptyObj,
      Fields(JStr(S_bug), JStr(<<"b", "o">>), JStr(<<"D", "o", "n", "e">>), JInt(2),
             JBool(FALSE), JStr(S_bug), JStr(<<>>), JStr(<<"c", "1">>)),
      Nested(Fields(JStr(<<>>), JStr(<<>>), JStr(<<>>), JInt(0), JBool(TRUE), JStr(<<>>),
                    JStr(<<"p", "r", "e", "f", "i", "x">>), JStr(<<>>))),
      ("label" :> Null) @@ Nested(("label" :> JStr(S_Urgent)) @@ ("owner" :> JStr(<<"a", "l">>))) }

NoFilter == [label |-> Null, owner |-> Null, column |-> Null, priority |-> Null,
             blocked |-> FALSE, query |-> Null]

\* Every combination of the six predicates, and each string-equality
\* predicate alone with further spellings of its value, the empty one included
Filters ==
    [label : {Null, JStr(S_Urgent)}, owner : {Null, JStr(<<"a", "l">>)},
     column : {Null, JStr(<<"d", "o">>)}, priority : {Null, JStr(<<"1">>)},
     blocked : BOOLEAN, query : {Null, JStr(<<"f", "i", "x">>)}]
      \cup {[NoFilter EXCEPT !.label = JStr(v)] : v \in {<<>>, S_urgent, S_URGENT, S_bug}}
      \cup {[NoFilter EXCEPT !.owner = JStr(v)] : v \in {<<>>, <<"A", "L">>}}
      \cup {[NoFilter EXCEPT !.column = JStr(v)] : v \in {<<>>, <<"D", "O">>}}

InitFilter ==
    /\ env = [hasKey |-> TRUE, board |-> Null]
    /\ \E F \in Filters : args = [command |-> "filter_cards"] @@ F
    /\ server = NoServer
    /\ pc = "filter"
    /\ all_cards \in SeqsUpTo(FilterPool, MaxCards)
    /\ InitState

\* filtered = filter_cards(all_cards, ...)
ApplyFilter ==
    /\ pc = "filter"
    /\ filtered' = filter_cards(all_cards, FilterOf(args))
    /\ pc' = "filtered"
    /\ UNCHANGED <<inputs, calls, stdout, exitcode, fetchVars, searchVars, wipVars,
                   refiltered>>

\* filter_cards(filtered, ...), the same filter applied to the result
ApplyFilterAgain ==
    /\ pc = "filtered"
    /\ refiltered' = filter_cards(filtered, FilterOf(args))
    /\ pc' = "refiltered"
    /\ UNCHANGED <<inputs, calls, stdout, exitcode, fetchVars, searchVars, wipVars,
                   filtered>>

NextFilter == ApplyFilter \/ ApplyFilterAgain

SpecFilter == InitFilter /\ [][NextFilter]_vars


\* The filter holds the string-equality predicate on `opt` and nothing else
OnlyPredicate(F, opt) ==
    /\ F[opt] # Null
    /\ \A o \in {"label", "owner", "column", "priority", "query"} \ {opt} : F[o] = Null
    /\ ~F.blocked

\* The card field each string-equality option is compared with
FieldOfOption(opt) ==
    CASE opt = "label" -> "label" [] opt = "owner" -> "owner" [] opt = "column" -> "columnTitle"

\* The field value as a string: the empty string when the field is absent
\* (or null or empty)
FieldText(card, field) ==
    LET v == get_card_field(card, field) IN IF v.t = "str" THEN v.v ELSE <<>>

\* The cards whose lowercased field equals the lowercased value, in order
RECURSIVE EqualCards(_, _, _)
EqualCards(cards, field, value) ==
    IF cards = <<>> THEN <<>>
    ELSE (IF Lower(FieldText(Head(cards), field)) = Lower(value)
          THEN <<Head(cards)>> ELSE <<>>) \o EqualCards(Tail(cards), field, value)

\* C8 (string-equality predicates): under a label, owner or column-title
\* predicate filter_cards keeps a record exactly when its lowercased field
\* value, an absent field taken as the empty string, equals the lowercased
\* filter value, whatever that value is (the empty string included).
C8_StringEquality ==
    pc = "filtered" =>
        \A opt \in {"label", "owner", "column"} :
            OnlyPredicate(FilterOf(args), opt) =>
                filtered = EqualCards(all_cards, FieldOfOption(opt), FilterOf(args)[opt].v)

\* C8 restricted to the non-empty filter values, which the code does obey
C8_NonEmptyValue ==
    pc = "filtered" =>
        \A opt \in {"label", "owner", "column"} :
            (OnlyPredicate(FilterOf(args), opt) /\ FilterOf(args)[opt].v # <<>>) =>
                filtered = EqualCards(all_cards, FieldOfOption(opt), FilterOf(args)[opt].v)

\* s is t with some of its elements left out, the others in their order
RECURSIVE IsSubsequence(_, _)
IsSubsequence(s, t) ==
    IF s = <<>> THEN TRUE
    ELSE IF t = <<>> THEN FALSE
    ELSE IF Head(s) = Head(t) THEN IsSubsequence(Tail(s), Tail(t))
    ELSE IsSubsequence(s, Tail(t))

\* C9 (filter idempotence): for every record list R and filter F,
\* filter_cards(filter_cards(R, F), F) = filter_cards(R, F), and
\* filter_cards(R, F) is an order-preserving subsequence of R.
C9_Idempotent ==
    /\ pc \in {"filtered", "refiltered"} => IsSubsequence(filtered, all_cards)
    /\ pc = "refiltered" => refiltered = filtered

\* A filter of several predicates kept one of two distinct cards, flat or
\* nested, and was applied a second time
C9_Witness ==
    /\ pc = "refiltered"
    /\ Len(all_cards) = 2
    /\ all_cards[1] # all_cards[2]
    /\ Len(filtered) = 1
    /\ args.label # Null /\ args.query # Null /\ args.blocked
    /\ refiltered = filtered


-----------------------------------------------------------------------------
(* SpecWip: the command wip-check against a board of at most MaxCols        *)
(* columns with thresholds absent, null or 0..MaxWip, holding at most       *)
(* MaxCards cards.                                                          *)

\* The namespace parse_args returns when no option is given (lines 421-526)
ArgDefaults ==
    [command |-> "", board |-> Null, include_archived |-> FALSE, include_columns |-> FALSE,
     label |-> Null, owner |-> Null, column |-> Null, priority |-> Null, blocked |-> FALSE,
     query |-> Null, page |-> JInt(1), count |-> JInt(100), days_since_update |-> Null,
     number |-> Null, title |-> Null, column_id |-> Null, description |-> Null,
     size |-> Null, due |-> Null, template_id |-> Null, add_to_top |-> FALSE,
     watcher |-> Null, custom_field |-> Null, file |-> Null, id |-> Null,
     blocked_by |-> Null, blocked_reason |-> Null, mirror_board |-> Null,
     card |-> Null, url |-> Null, type |-> Null]

\* How the board and the key reach the program: --board, the environment,
\* neither, an empty --board beside the environment's, and no key
Setups ==
    { [ab |-> Board1, eb |-> Null, key |-> TRUE],
      [ab |-> Null, eb |-> Board1, key |-> TRUE],
      [ab |-> JStr(<<>>), eb |-> Board1, key |-> TRUE],
      [ab |-> Null, eb |-> Null, key |-> TRUE],
      [ab |-> Board1, eb |-> Null, key |-> FALSE] }

MainSetup == [ab |-> Board1, eb |-> Null, key |-> TRUE]

InitSetup(su, command) ==
    /\ env = [hasKey |-> su.key, board |-> su.eb]
    /\ args = [ArgDefaults EXCEPT !.command = command, !.board = su.ab]

\* A key that a JSON object does not hold
Absent == [t |-> "absent"]

WithOpt(d, k, v) == IF v = Absent THEN d ELSE Put(d, k, v)

Thresholds == {Absent, Null} \cup {JInt(n) : n \in 0..MaxWip}

C1Id == JStr(<<"c", "1">>)
C2Id == JStr(<<"c", "2">>)

ColumnBase(type, title) ==
    ("type" :> JStr(<<type>>)) @@ ("title" :> JStr(<<title>>))
        @@ ("columnState" :> JStr(<<"active">>))

\* The kinds of column of a board response: flat or wrapped in ColumnItem, of
\* type CARD or not, identified by columnId or, without one, by boardTitle
ColumnKinds ==
    { Put(ColumnBase("CARD", "Todo"), "columnId", C1Id),
      ("ColumnItem" :> JObj(Put(ColumnBase("CARD", "Doing"), "columnId", C2Id))),
      Put(ColumnBase("ARCHIVE", "Archive"), "columnId", C1Id),
      Put(ColumnBase("CARD", "Done"), "boardTitle", C2Id) }

\* The column with its thresholds set, under the wrapper when it has one
WithThresholds(colw, lo, hi) ==
    IF "ColumnItem" \in DOMAIN colw
    THEN ("ColumnItem" :> JObj(WithOpt(WithOpt(colw["ColumnItem"].v, "minWIP", lo), "maxWIP", hi)))
    ELSE WithOpt(WithOpt(colw, "minWIP", lo), "maxWIP", hi)

\* The response to GET /board/{id}?includeColumns=true
BoardDoc(columns) ==
    ("boards" :> JList(<<("publicId" :> Board1) @@ ("columns" :> JList(columns))>>))

WrappedBoardDoc(columns) ==
    ("boards" :> JList(<<("BoardItem" :> JObj(("publicId" :> Board1)
                                                @@ ("columns" :> JList(columns))))>>))

SomeColumns ==
    << Put(Put(ColumnBase("CARD", "Todo"), "columnId", C1Id), "maxWIP", JInt(1)),
       ("ColumnItem" :> JObj(Put(Put(ColumnBase("ARCHIVE", "Old"), "columnId", C2Id),
                                 "maxWIP", JInt(1)))),
       ("ColumnItem" :> JObj(Put(Put(ColumnBase("CARD", "Doing"), "columnId", C2Id),
                                 "minWIP", JInt(1)))) >>

\* Board responses out of the ordinary: errors, no boards, no columns, the
\* board under its BoardItem wrapper
OddBoardReplies ==
    ErrorReplies \cup
    { ("boards" :> JList(<<>>)), EmptyObj,
      ("boards" :> JList(<<("publicId" :> Board1)>>)),
      WrappedBoardDoc(SomeColumns) }

BoardReplies ==
    { BoardDoc([i \in DOMAIN kinds |-> WithThresholds(kinds[i], lo, hi)]) :
        kinds \in SeqsUpTo(ColumnKinds, MaxCols), lo \in Thresholds, hi \in Thresholds }

\* The server sends the cards of a board one to a page
OnePerPage(cards) ==
    IF cards = <<>> THEN <<Page(<<>>, FALSE)>>
    ELSE [i \in 1..Len(cards) |-> Page(<<cards[i]>>, i < Len(cards))]

ColumnCards ==
    { ("number" :> JInt(1)) @@ ("columnId" :> C1Id),
      Nested(("number" :> JInt(2)) @@ ("columnId" :> C2Id)) }

WipServer(boardReply, pages) ==
    [boards |-> HttpError, board |-> boardReply, other |-> HttpError,
     cards |-> (Board1 :> pages)]

InitWip ==
    /\ \/ /\ \E su \in Setups : InitSetup(su, "wip-check")
          /\ server = WipServer(BoardDoc(SomeColumns), <<HttpError>>)
       \/ /\ InitSetup(MainSetup, "wip-check")
          /\ \E b \in OddBoardReplies, pages \in {<<HttpError>>, <<Page(<<>>, TRUE), UrlError>>} :
                server = WipServer(b, pages)
       \/ /\ InitSetup(MainSetup, "wip-check")
          /\ \E b \in BoardReplies \cup OddBoardReplies, cards \in SeqsUpTo(ColumnCards, MaxCards) :
                server = WipServer(b, OnePerPage(cards))
    /\ pc = "main"
    /\ InitLocals

NextWip == Main \/ CmdWipCheck \/ FetchFirst \/ FetchNext \/ FetchReturn \/ WipReport

SpecWip == InitWip /\ [][NextWip]_vars


\* wip-check has ended by writing its report
WipReported ==
    /\ pc = "exited"
    /\ args.command = "wip-check"
    /\ stdout # <<>>
    /\ "columns" \in DOMAIN stdout[Len(stdout)]
    /\ stdout[Len(stdout)]["columns"] = JList(report)

\* "<what> (<current>/<limit>)"
ViolationText(what, current, limit) ==
    JStr(<<what>> \o IntToStr(current) \o <<"/">> \o IntToStr(limit) \o <<")">>)

\* The violations the rule of C6 asks for: a threshold is set when the
\* column holds a value for it
RuleViolations(current, min_wip, max_wip) ==
    (IF max_wip # Null /\ current > max_wip.v
     THEN <<ViolationText("over max (", current, max_wip.v)>> ELSE <<>>)
    \o (IF min_wip # Null /\ current < min_wip.v
        THEN <<ViolationText("under min (", current, min_wip.v)>> ELSE <<>>)

\* C6 (WIP violation rule): for every reported column, with current its
\* card count and for every threshold value, the violations are "over max
\* (current/max)" exactly when a maxWIP is set and current > maxWIP, then
\* "under min (current/min)" exactly when a minWIP is set and current <
\* minWIP; an absent threshold is no limit.
C6_ViolationRule ==
    WipReported =>
        \A i \in 1..Len(report) :
            report[i]["violations"].v =
                RuleViolations(report[i]["currentCards"].v, report[i]["minWIP"],
                               report[i]["maxWIP"])

\* C6 for the thresholds other than 0, which the code does obey
C6_NonZeroThresholds ==
    WipReported =>
        \A i \in 1..Len(report) :
            (report[i]["minWIP"] # JInt(0) /\ report[i]["maxWIP"] # JInt(0)) =>
                report[i]["violations"].v =
                    RuleViolations(report[i]["currentCards"].v, report[i]["minWIP"],
                                   report[i]["maxWIP"])

\* The type of a column of the board response, read under its wrapper
TypeOfColumn(colw) == Get(Unwrap(colw, "ColumnItem"), "type")

\* The columns of type CARD among `columns`, in their order
RECURSIVE CardColumns(_)
CardColumns(columns) ==
    IF columns = <<>> THEN <<>>
    ELSE (IF TypeOfColumn(Head(columns)) = JStr(<<"CARD">>) THEN <<Head(columns)>> ELSE <<>>)
         \o CardColumns(Tail(columns))

\* C7 (WIP report membership and order): the report holds exactly one entry
\* for each column of type CARD of the board response and none for a column
\* of another type, in the order of the columns in the response.
C7_ReportMembership ==
    WipReported =>
        LET cols == CardColumns(ColumnsOf(server.board))
        IN  /\ Len(report) = Len(cols)
            /\ \A i \in 1..Len(report) :
                  /\ report[i]["columnTitle"] = Get(Unwrap(cols[i], "ColumnItem"), "title")
                  /\ report[i]["minWIP"] = Get(Unwrap(cols[i], "ColumnItem"), "minWIP")
                  /\ report[i]["maxWIP"] = Get(Unwrap(cols[i], "ColumnItem"), "maxWIP")

\* A board of three columns, the middle one of type ARCHIVE with a maxWIP
\* set, was reported as its two CARD columns in their order
C7_Witness ==
    /\ WipReported
    /\ Len(ColumnsOf(server.board)) = 3
    /\ TypeOfColumn(ColumnsOf(server.board)[2]) = JStr(<<"ARCHIVE">>)
    /\ Get(Unwrap(ColumnsOf(server.board)[2], "ColumnItem"), "maxWIP") # Null
    /\ Len(report) = 2
    /\ report[1]["columnTitle"] = JStr(<<"Todo">>)
    /\ report[2]["columnTitle"] = JStr(<<"Doing">>)


-----------------------------------------------------------------------------
(* SpecCount: the commands wip-check and cards against a board holding at   *)
(* most MaxCards cards, with and without a column identifier, flat and      *)
(* nested.                                                                  *)

CountPool ==
    { ("columnId" :> C1Id) @@ ("label" :> JStr(S_Urgent)) @@ ("title" :> JStr(<<"F", "i", "x">>)),
      Nested(("columnId" :> C1Id) @@ ("label" :> JStr(S_bug))),
      ("columnId" :> C2Id) @@ ("blocked" :> JBool(TRUE)),
      ("label" :> JStr(S_URGENT)) @@ ("title" :> JStr(<<"f", "i", "x">>)) @@ ("blocked" :> JBool(TRUE)),
      ("columnId" :> Null) @@ ("label" :> JStr(S_bug)),
      Nested(("columnId" :> JStr(<<>>)) @@ ("label" :> JStr(S_Urgent))),
      ("columnId" :> Null) @@ Nested(("columnId" :> C1Id) @@ ("label" :> JStr(S_urgent))),
      Nested(("label" :> JStr(S_urgent)) @@ ("description" :> JStr(<<"F", "I", "X">>))) }

CountFilters ==
    { [NoFilter EXCEPT !.label = JStr(S_urgent)],
      [NoFilter EXCEPT !.query = JStr(<<"F", "i", "x">>)],
      [NoFilter EXCEPT !.blocked = TRUE],
      [NoFilter EXCEPT !.label = JStr(S_bug), !.column = JStr(<<>>)],
      NoFilter }

InitCount ==
    /\ \/ /\ InitSetup(MainSetup, "wip-check")
          /\ \E cards \in SeqsUpTo(CountPool, MaxCards) :
                server = WipServer(BoardDoc(SomeColumns), OnePerPage(cards))
       \/ /\ env = [hasKey |-> TRUE, board |-> Board1]
          /\ \E F \in CountFilters : args = F @@ [ArgDefaults EXCEPT !.command = "cards"]
          /\ \E cards \in SeqsUpTo(CountPool, MaxCards) :
                server = WipServer(HttpError, OnePerPage(cards))
       \/ /\ \E su \in Setups : InitSetup(su, "cards")
          /\ server = WipServer(HttpError, <<HttpError>>)
    /\ pc = "main"
    /\ InitLocals

NextCount ==
    \/ Main \/ CmdWipCheck \/ CmdCards
    \/ FetchFirst \/ FetchNext \/ FetchReturn
    \/ WipReport \/ CardsFetched

SpecCount == InitCount /\ [][NextCount]_vars

\* A card has a column assignment when its columnId, at the top level or
\* under CardItem, resolves to an identifier (not null, not empty)
Assigned(card) ==
    LET cid == get_card_field(card, "columnId") IN cid # Null /\ cid # JStr(<<>>)

\* The positions of the fetched cards assigned to column c
CardsIn(c) == {i \in 1..Len(fetched.v) : Assigned(fetched.v[i])
                                           /\ get_card_field(fetched.v[i], "columnId") = c}

RECURSIVE SumCounts(_, _)
SumCounts(counts, ids) ==
    IF ids = {} THEN 0
    ELSE LET c == CHOOSE x \in ids : TRUE IN counts[c] + SumCounts(counts, ids \ {c})

\* The cards of a list that have no column assignment, in their order
RECURSIVE Unassigned(_)
Unassigned(cards) ==
    IF cards = <<>> THEN <<>>
    ELSE (IF Assigned(Head(cards)) THEN <<>> ELSE <<Head(cards)>>) \o Unassigned(Tail(cards))

\* The cards of a list that no predicate of the filter skips, in their order
RECURSIVE Satisfying(_, _)
Satisfying(cards, F) ==
    IF cards = <<>> THEN <<>>
    ELSE (IF Skipped(Head(cards), F) THEN <<>> ELSE <<Head(cards)>>)
         \o Satisfying(Tail(cards), F)

\* cards has ended by writing the filtered cards
CardsFiltered ==
    /\ pc = "exited"
    /\ args.command = "cards"
    /\ has_filters
    /\ fetched # Null
    /\ ~FetchFailed(fetched)

\* C10 (column counting): in wip-check the counter of an identifier c is the
\* number of fetched cards whose columnId, at the top level or under
\* CardItem, resolves to c; cards without a column identifier add to no
\* counter, so the counters sum to the number of cards that have a column
\* assignment; and filter_cards keeps the unassigned cards that satisfy the
\* filter.
C10_ColumnCounting ==
    /\ WipReported =>
          /\ \A c \in DOMAIN col_counts \cup {C1Id, C2Id, Null, JStr(<<>>)} :
                GetOr(col_counts, c, 0) = Cardinality(CardsIn(c))
          /\ SumCounts(col_counts, DOMAIN col_counts)
                = Cardinality({i \in 1..Len(fetched.v) : Assigned(fetched.v[i])})
    /\ CardsFiltered =>
          Unassigned(filtered) = Satisfying(Unassigned(fetched.v), FilterOf(args))

\* wip-check counted a card whose column is under CardItem and left out a
\* card without a column
C10_Witness ==
    /\ WipReported
    /\ Len(fetched.v) = 2
    /\ "CardItem" \in DOMAIN fetched.v[1] /\ Assigned(fetched.v[1])
    /\ ~Assigned(fetched.v[2])
    /\ col_counts = (C1Id :> 1)

\* cards kept an unassigned card that satisfies the filter and dropped an
\* assigned one that does not
C10_WitnessKept ==
    /\ CardsFiltered
    /\ Len(fetched.v) = 2
    /\ Len(filtered) = 1
    /\ ~Assigned(filtered[1])


-----------------------------------------------------------------------------
(* SpecSearch: the command search-cards against a listing of at most        *)
(* MaxBoards boards, active or archived, flat or wrapped, whose cards come  *)
(* on one or two pages or fail.                                             *)

B1Id == JStr(<<"b", "1">>)
B2Id == JStr(<<"b", "2">>)
B3Id == JStr(<<"b", "3">>)

\* The kinds of board_item of the listing: flat, under BoardItem, archived,
\* and one without a publicId
BoardKinds ==
    { ("publicId" :> B1Id),
      ("BoardItem" :> JObj(("publicId" :> B2Id) @@ ("isArchived" :> JBool(FALSE)))),
      ("publicId" :> B3Id) @@ ("isArchived" :> JBool(TRUE)),
      ("title" :> JStr(<<"no id">>)) }

\* Card n of board b: one that the filters of SearchArgs keep, one they do not
Hit(b, n) ==
    ("number" :> JInt(n)) @@ ("board" :> b) @@ ("label" :> JStr(S_URGENT))
        @@ ("title" :> JStr(<<"F", "i", "x">>)) @@ ("blocked" :> JBool(TRUE))

NestedHit(b, n) ==
    Nested(("number" :> JInt(n)) @@ ("board" :> b) @@ ("label" :> JStr(S_urgent))
               @@ ("description" :> JStr(<<"f", "i", "x">>)) @@ ("blocked" :> JInt(1)))

Miss(b, n) == ("number" :> JInt(n)) @@ ("board" :> b) @@ ("label" :> JStr(S_bug))

\* What the server may hold for the cards of board b
BoardPages(b) ==
    { <<Page(<<Hit(b, 1)>>, FALSE)>>,
      <<Page(<<Miss(b, 1), NestedHit(b, 2)>>, TRUE), Page(<<Hit(b, 3)>>, FALSE)>>,
      <<HttpError>>,
      <<Page(<<Hit(b, 1), Miss(b, 2)>>, TRUE), UrlError>>,
      <<Page(<<>>, FALSE)>> }

SearchArgs ==
    { [ArgDefaults EXCEPT !.query = JStr(<<"F", "I", "X">>)],
      [ArgDefaults EXCEPT !.label = JStr(S_Urgent), !.include_archived = TRUE],
      [ArgDefaults EXCEPT !.blocked = TRUE],
      [ArgDefaults EXCEPT !.owner = JStr(<<"a", "l">>), !.priority = JStr(<<"1">>)],
      [ArgDefaults EXCEPT !.query = JStr(<<"f", "i", "x">>), !.label = JStr(S_urgent)],
      [ArgDefaults EXCEPT !.include_archived = TRUE],
      [ArgDefaults EXCEPT !.label = JStr(<<>>)],
      ArgDefaults }

Listings == {("boards" :> JList(items)) : items \in SeqsUpTo(BoardKinds, MaxBoards)}

InitSearch ==
    /\ \E a \in SearchArgs : args = [a EXCEPT !.command = "search-cards"]
    /\ \/ /\ env = [hasKey |-> TRUE, board |-> Null]
          /\ \E l \in Listings, p1 \in BoardPages(B1Id), p2 \in BoardPages(B2Id) :
                server = [boards |-> l, board |-> HttpError, other |-> HttpError,
                          cards |-> (B1Id :> p1) @@ (B2Id :> p2)
                                        @@ (B3Id :> <<Page(<<Hit(B3Id, 1)>>, FALSE)>>)]
       \/ /\ env \in [hasKey : BOOLEAN, board : {Null}]
          /\ \E l \in ErrorReplies \cup {EmptyObj} :
                server = [boards |-> l, board |-> HttpError, other |-> HttpError,
                          cards |-> EmptyObj]
    /\ pc = "main"
    /\ InitLocals

NextSearch ==
    \/ Main \/ CmdSearchCards \/ SearchBoard
    \/ FetchFirst \/ FetchNext \/ FetchReturn
    \/ SearchFetched \/ SearchOutput

SpecSearch == InitSearch /\ [][NextSearch]_vars


\* search-cards was invoked with no query and none of the filter flags
NothingGiven ==
    /\ args.command = "search-cards"
    /\ args.query = Null /\ args.label = Null /\ args.owner = Null /\ args.priority = Null
    /\ ~args.blocked

UsageError ==
    ("error" :> JBool(TRUE))
        @@ ("message" :> JStr(<<"Provide --query and/or filter flags (--label, --owner, --priority, --blocked).">>))

\* C4 (cross-board search guard): search-cards invoked with no query and no
\* filter flag issues no api_request call at any time, and ends with the
\* usage error and exit status 1.
C4_SearchGuard ==
    NothingGiven =>
        /\ calls = <<>>
        /\ pc \in {"main", "search-cards", "exited"}
        /\ pc = "exited" => (stdout = <<UsageError>> /\ exitcode = 1)

\* search-cards without query or flags, a key in the environment, has exited
C4_Witness ==
    /\ NothingGiven
    /\ env.hasKey
    /\ args.include_archived
    /\ pc = "exited"
    /\ stdout = <<UsageError>>

\* The board_items of the listing the server sent
Listed == GetOr(server.boards, "boards", JList(<<>>)).v

ArchivedAt(i) == Truthy(Get(Unwrap(Listed[i], "BoardItem"), "isArchived"))

\* What fetch_all_cards returned for the board_item at i
RECURSIVE ResultAt(_, _)
ResultAt(log, i) ==
    IF log = <<>> THEN Null
    ELSE IF Head(log).idx = i THEN Head(log).result
    ELSE ResultAt(Tail(log), i)

\* What the board_item at i adds to the output: nothing when it is archived
\* or its fetch returned an error, else its fetched cards filtered
Contribution(i) ==
    IF ArchivedAt(i) \/ FetchFailed(ResultAt(fetchlog, i)) THEN <<>>
    ELSE filter_cards(ResultAt(fetchlog, i).v, SearchFilterOf(args))

\* search-cards has ended by writing its cards
SearchReported ==
    /\ pc = "exited"
    /\ args.command = "search-cards"
    /\ ~IsError(server.boards)
    /\ exitcode = 0

\* C5 (cross-board search accumulation): when the listing succeeds, the
\* cards written are the concatenation, in listing order, of
\* filter_cards(fetch_all_cards(b)) over the listed boards b that are not
\* archived and whose fetch returned no error; an archived board is never
\* fetched, and a board whose fetch fails adds nothing and does not stop the
\* boards after it: every board that is not archived is fetched, once, in
\* listing order.
C5_SearchAccumulation ==
    SearchReported =>
        /\ stdout = <<("count" :> JInt(Len(all_results))) @@ ("cards" :> JList(all_results))>>
        /\ all_results = Concat([i \in 1..Len(Listed) |-> Contribution(i)])
        /\ \A k \in 1..Len(fetchlog) :
              /\ fetchlog[k].idx \in 1..Len(Listed)
              /\ ~ArchivedAt(fetchlog[k].idx)
              /\ \A j \in 1..(k - 1) : fetchlog[j].idx < fetchlog[k].idx
        /\ \A i \in 1..Len(Listed) :
              ~ArchivedAt(i) => \E k \in 1..Len(fetchlog) : fetchlog[k].idx = i
        /\ Len(calls) > 1 =>
              \A k \in 2..Len(calls) :
                  \A i \in 1..Len(Listed) :
                      ArchivedAt(i) =>
                          Get(calls[k].params, "board")
                              # Get(Unwrap(Listed[i], "BoardItem"), "publicId")

\* The first board failed on its first page, the second added its cards
C5_Witness ==
    /\ SearchReported
    /\ Len(Listed) = 2
    /\ Len(fetchlog) = 2
    /\ FetchFailed(fetchlog[1].result)
    /\ ~FetchFailed(fetchlog[2].result)
    /\ Len(fetchlog[2].result.v) = 3
    /\ Len(all_results) = 2

\* Two boards each added cards, those of the first before those of the second
C5_WitnessTwoBoards ==
    /\ SearchReported
    /\ Len(Listed) = 2
    /\ Len(all_results) >= 2
    /\ get_card_field(all_results[1], "board") = B1Id
    /\ get_card_field(all_results[Len(all_results)], "board") = B2Id

-----------------------------------------------------------------------------
(* SpecMain: one invocation of every subcommand, and of no subcommand, with *)
(* and without a board and a key, against a server that answers, fails, or  *)
(* fails for the cards only.                                                *)

Seven == JInt(7)

S_Title == JStr(<<"T">>)

\* --custom-field values: well formed, to be stripped, and without "="
GoodCustomFields == JList(<<JStr(<<"A", "=", "1">>), JStr(<<" ", "B", " ", "=", " ", "=", "2", " ">>)>>)

BadCustomFields == JList(<<JStr(<<"A", "=", "1">>), JStr(<<"B">>), JStr(<<"C">>)>>)

\* The namespaces parse_args can return (lines 421-526); --card 0 and --url ""
\* satisfy the required group of link-card and unlink-card
Invocations ==
    { ArgDefaults,
      [ArgDefaults EXCEPT !.command = "boards"],
      [ArgDefaults EXCEPT !.command = "boards", !.include_archived = TRUE,
                          !.include_columns = TRUE],
      [ArgDefaults EXCEPT !.command = "board"],
      [ArgDefaults EXCEPT !.command = "board", !.include_columns = TRUE],
      [ArgDefaults EXCEPT !.command = "cards"],
      [ArgDefaults EXCEPT !.command = "cards", !.label = JStr(S_Urgent)],
      [ArgDefaults EXCEPT !.command = "cards", !.days_since_update = Seven,
                          !.include_archived = TRUE],
      [ArgDefaults EXCEPT !.command = "card", !.number = JStr(<<"7">>)],
      [ArgDefaults EXCEPT !.command = "create-card", !.title = S_Title],
      [ArgDefaults EXCEPT !.command = "create-card", !.title = S_Title,
                          !.custom_field = GoodCustomFields, !.add_to_top = TRUE,
                          !.watcher = JList(<<JStr(<<"a", "l">>)>>),
                          !.priority = JStr(<<"1">>), !.size = JStr(<<"S">>)],
      [ArgDefaults EXCEPT !.command = "create-card", !.title = S_Title,
                          !.custom_field = BadCustomFields],
      [ArgDefaults EXCEPT !.command = "create-cards", !.file = JStr(<<"cards.json">>)],
      [ArgDefaults EXCEPT !.command = "move-card", !.id = Seven, !.column_id = C1Id],
      [ArgDefaults EXCEPT !.command = "move-card", !.id = Seven, !.column_id = C1Id,
                          !.mirror_board = B2Id],
      [ArgDefaults EXCEPT !.command = "link-card", !.id = Seven, !.card = JInt(2)],
      [ArgDefaults EXCEPT !.command = "link-card", !.id = Seven, !.card = JInt(0)],
      [ArgDefaults EXCEPT !.command = "link-card", !.id = Seven, !.url = JStr(<<"u">>),
                          !.title = S_Title, !.type = JStr(<<"doc">>)],
      [ArgDefaults EXCEPT !.command = "link-card", !.id = Seven, !.url = JStr(<<>>)],
      [ArgDefaults EXCEPT !.command = "unlink-card", !.id = Seven, !.card = JInt(2),
                          !.mirror_board = B2Id],
      [ArgDefaults EXCEPT !.command = "unlink-card", !.id = Seven, !.url = JStr(<<"u">>)],
      [ArgDefaults EXCEPT !.command = "unlink-card", !.id = Seven, !.card = JInt(0)],
      [ArgDefaults EXCEPT !.command = "search-cards"],
      [ArgDefaults EXCEPT !.command = "search-cards", !.query = JStr(<<"f", "i", "x">>)],
      [ArgDefaults EXCEPT !.command = "wip-check"] }

\* The namespaces of update-card, whose --blocked is a text or None
UpdateInvocations ==
    { [ArgDefaults EXCEPT !.command = "update-card", !.id = Seven, !.blocked = Null],
      [ArgDefaults EXCEPT !.command = "update-card", !.id = Seven, !.blocked = Null,
                          !.title = S_Title],
      [ArgDefaults EXCEPT !.command = "update-card", !.id = Seven,
                          !.blocked = JStr(<<"T", "r", "u", "e">>)],
      [ArgDefaults EXCEPT !.command = "update-card", !.id = Seven,
                          !.blocked = JStr(<<"n", "o">>), !.custom_field = GoodCustomFields],
      [ArgDefaults EXCEPT !.command = "update-card", !.id = Seven, !.blocked = Null,
                          !.custom_field = BadCustomFields],
      [ArgDefaults EXCEPT !.command = "update-card", !.id = Seven, !.blocked = Null,
                          !.title = JStr(<<>>)] }

\* What --file names: nothing readable as JSON, a document with a board, a
\* document without one
Files ==
    { Absent,
      JObj(("board" :> B2Id) @@ ("cards" :> JList(<<("title" :> S_Title)>>))),
      JObj(("cards" :> JList(<<("title" :> S_Title)>>))) }

FilesOf(a) == IF a.command = "create-cards" THEN Files ELSE {Absent}

\* The answer of the server to a request that creates or changes a card
Done == ("success" :> JBool(TRUE))

OneBoardListing == ("boards" :> JList(<<("publicId" :> Board1) @@ ("isArchived" :> JBool(FALSE))>>))

SomeCards == <<Hit(Board1, 1), Put(Miss(Board1, 2), "columnId", C1Id)>>

\* A server that answers everything, one that fails everything, and ones
\* that fail for the first or the second page of the cards only
MainServers ==
    { [boards |-> OneBoardListing, board |-> BoardDoc(SomeColumns), other |-> Done,
       cards |-> (Board1 :> OnePerPage(SomeCards))] }
    \cup { [boards |-> e, board |-> e, other |-> e, cards |-> (Board1 :> <<e>>)] :
             e \in ErrorReplies }
    \cup { [boards |-> OneBoardListing, board |-> BoardDoc(SomeColumns), other |-> Done,
            cards |-> (Board1 :> pages)] :
             pages \in {<<e>> : e \in ErrorReplies}
                        \cup {<<Page(<<Hit(Board1, 1)>>, TRUE), e>> : e \in ErrorReplies} }

InitMain ==
    /\ \E su \in Setups :
          /\ \/ \E a \in Invocations : args = [a EXCEPT !.board = su.ab]
             \/ \E a \in UpdateInvocations : args = [a EXCEPT !.board = su.ab]
          /\ \E f \in FilesOf(args) : env = [hasKey |-> su.key, board |-> su.eb, file |-> f]
    /\ server \in MainServers
    /\ pc = "main"
    /\ InitLocals

NextMain ==
    \/ Main
    \/ CmdBoards \/ CmdBoard \/ CmdCards \/ CmdCard
    \/ CmdCreateCard \/ CmdCreateCards \/ CmdUpdateCard \/ CmdMoveCard
    \/ CmdLinkCard \/ CmdUnlinkCard
    \/ CmdSearchCards \/ SearchBoard \/ SearchFetched \/ SearchOutput
    \/ CmdWipCheck \/ WipReport
    \/ CardsFetched
    \/ FetchFirst \/ FetchNext \/ FetchReturn

SpecMain == InitMain /\ [][NextMain]_vars

\* The invocation has written an error document to standard output
ReportedError == \E i \in DOMAIN stdout : IsError(stdout[i])

\* The error document printed last is the answer api_request got last
PrintedApiError ==
    /\ calls # <<>>
    /\ stdout # <<>>
    /\ stdout[Len(stdout)] = api_request(calls[Len(calls)])
    /\ stdout[Len(stdout)] \in ErrorReplies

\* C3: for every subcommand, an invocation that has reported an error
\* (configuration, usage, or an error value of api_request printed as the
\* output document) ends with a non-zero exit status: exit status 0 is reached
\* only by invocations that reported no error.
C3_ExitStatus == (pc = "exited" /\ ReportedError) => exitcode # 0

\* C3, what the code does keep: an invocation that reported an error and
\* ended with status 0 printed an error value of api_request; the
\* configuration and usage errors, reported before any request, end with
\* status 1.
C3_LocalErrorsExitNonZero ==
    /\ (pc = "exited" /\ ReportedError /\ exitcode = 0) => PrintedApiError
    /\ (pc = "exited" /\ ReportedError /\ calls = <<>>) => exitcode = 1

\* A configuration or usage error has ended the invocation with status 1
C3_LocalErrorReached ==
    pc = "exited" /\ ReportedError /\ calls = <<>> /\ exitcode = 1 /\ env.hasKey

-----------------------------------------------------------------------------
(* SpecProtocol: the requests of one fetch_all_cards call against a server  *)
(* of 1..MaxPages answers, each a one-record page with hasMore true or      *)
(* false, a page without hasMore, a page without cards, or an error. The    *)
(* interpreter runs the call on, so a step that can be taken is taken.      *)

ProtocolShapes == {sh \in PageShapes : sh.size = 1}

ProtocolSeqs ==
    UNION {{[i \in 1..n |-> ReplyAt(i, f[i])] : f \in [1..n -> ProtocolShapes]} :
              n \in 1..MaxPages}

InitProtocol ==
    /\ env \in [hasKey : BOOLEAN, board : {Null}]
    /\ args \in [command : {"fetch_all_cards"}, board : {Board1}, include_archived : BOOLEAN]
    /\ \E ps \in ProtocolSeqs : server = [NoServer EXCEPT !.cards = (Board1 :> ps)]
    /\ pc = "call"
    /\ InitLocals

SpecProtocol == InitProtocol /\ [][NextFetch]_vars /\ WF_vars(NextFetch)

\* The answer the server gave to the i-th request of the call
AnswerTo(i) == api_request(calls[i])

\* An answer after which the loop goes on: no error, hasMore truthy
Continues(d) == ~IsError(d) /\ HasMore(d)

\* Request r is request q but for its page parameter
SameButPage(q, r) ==
    /\ r.method = q.method
    /\ r.ep = q.ep
    /\ r.arg = q.arg
    /\ r.body = q.body
    /\ DOMAIN r.params \ {"page"} = DOMAIN q.params \ {"page"}
    /\ \A k \in DOMAIN r.params \ {"page"} : r.params[k] = q.params[k]

\* The requests so far: the first without a page, the i-th for page i, each
\* the previous one but for its page, each sent after an answer that continues
RequestsInOrder ==
    /\ calls # <<>> => "page" \notin DOMAIN calls[1].params
    /\ \A i \in 2..Len(calls) :
          /\ "page" \in DOMAIN calls[i].params
          /\ calls[i].params["page"] = JInt(i)
          /\ SameButPage(calls[i - 1], calls[i])
          /\ Continues(AnswerTo(i - 1))

\* A step sends at most one request, and none once an answer has not continued;
\* the loop returns in the step after such an answer
OneRequestAtATime ==
    /\ calls' = calls \/ (Len(calls') = Len(calls) + 1 /\ SubSeq(calls', 1, Len(calls)) = calls)
    /\ (calls # <<>> /\ ~Continues(AnswerTo(Len(calls)))) =>
          /\ calls' = calls
          /\ pc' = "done"

\* The call has returned, or the missing key has ended the process
FetchEnded == pc = "done" \/ pc = "exited"

\* C11 (pagination request protocol): within one fetch_all_cards call the
\* requests are sent one at a time, the first without a page parameter and
\* the i-th (i >= 2) with page = i, each differing from the previous only in
\* page, no page skipped or asked for twice; the request for page i+1 is sent
\* only after the answer for page i came with hasMore true and no error, no
\* request follows an answer that is an error or has no true hasMore, and the
\* call ends once the server has given such an answer.
C11_RequestProtocol ==
    /\ []RequestsInOrder
    /\ [][OneRequestAtATime]_vars
    /\ (pc = "fetch") ~> FetchEnded

\* Three requests were sent, for pages 1, 2 and 3, and the call has returned
C11_Witness ==
    /\ pc = "done"
    /\ Len(calls) = 3
    /\ calls[2].params["page"] = JInt(2)
    /\ calls[3].params["page"] = JInt(3)
    /\ "includeArchived" \in DOMAIN calls[3].params

\* The call has returned after page 2 although the server holds a page 3
C11_WitnessStopsEarly ==
    /\ pc = "done"
    /\ Len(server.cards[Board1]) = 3
    /\ Len(calls) = 2
    /\ ~Continues(AnswerTo(2))

=============================================================================
